---- MODULE Spec2Model ----
(***************************************************************************)
(* Model of the multi-file tail engine of reader/tailx/tailx.go: the       *)
(* Reader (engine), its ActiveReaders (followers), the discovery           *)
(* goroutine (checkExpiredFiles + statLogPath), the consumer's ReadLine,   *)
(* SyncMeta, Close, and a process restart from the persisted meta.         *)
(*                                                                         *)
(* Lines of a file are named by their index in the file (1, 2, ...); the   *)
(* empty string is 0.  Time is relative: age[f] is the number of           *)
(* statInterval periods since f was last written.                          *)
(***************************************************************************)
EXTENDS Integers, Sequences, FiniteSets, TLC

\* ------------------------------------------------------------------ bounds
MaxLines == 2
MaxTasks == 2
MaxObjs == 3
MaxAge == 2
MaxRestarts == 1
MaxStatsLen == 2

\* ------------------------------------------------------- program constants
EmptyLineLimit == 3

\* ------------------------------------------------------------- file system
RealPaths == {"a", "b", "c"}
Paths == RealPaths \cup {"l"}
PathOrder == <<"a", "b", "c", "l">>
Slots == 1..MaxObjs
TaskIds == 1..MaxTasks

\* GetRealPath: "l" is a symbolic link to "a"; every other path is a file.
GetRealPath(o) == IF o = "l" THEN "a" ELSE o

\* The notional wall clock; the modification time of a file is Now - age.
Now == MaxAge

Range(f) == {f[x] : x \in DOMAIN f}

VARIABLES
    cfg,          \* configuration of the Reader (fixed by NewReader)
    present,      \* paths that exist on disk
    flen,         \* flen[f]: number of lines written to f
    age,          \* age[f]: statInterval periods since f was written
    status,       \* Reader.status
    stopChan,     \* "open" / "closed"
    msgChan,      \* "open" / "closed"
    errChan,      \* "open" / "closed"
    fileReaders,  \* Reader.fileReaders: real path -> slot of its ActiveReader, 0 if none
    cacheMap,     \* Reader.cacheMap: real path -> cached line, 0 if no entry
    notFirstTime, \* Reader.notFirstTime
    currentFile,  \* Reader.currentFile
    objs,         \* the ActiveReader objects (registered or still referenced)
    disc,         \* the discovery goroutine of Reader.Start
    syncer,       \* a SyncMeta call in progress
    closer,       \* a Close call in progress
    blob,         \* the buffer blob written by meta.WriteBuf (path -> line pairs)
    metaOff,      \* offset persisted in the submeta of each path, -1 if no submeta
    subMetas,     \* paths registered by meta.AddSubMeta
    run,          \* number of restarts of the process so far
    stats,        \* Reader.stats.LastError: the entries appended to it so far
    hist          \* what the consumer and the sweeps have seen (history)

vars == <<cfg, present, flen, age, status, stopChan, msgChan, errChan, fileReaders,
          cacheMap, notFirstTime, currentFile, objs, disc, syncer, closer, blob,
          metaOff, subMetas, run, stats, hist>>

envVars == <<present, flen, age>>
chanVars == <<stopChan, msgChan, errChan>>
metaVars == <<blob, metaOff, subMetas>>

\* ------------------------------------------------------------ ActiveReader
IdleTask == [pc |-> "idle", val |-> 0]

\* A slot that holds no ActiveReader.
NoObj == [live |-> FALSE, path |-> "", origin |-> "", status |-> "Init", inactive |-> 1,
          emptyLineCnt |-> 0, readcache |-> 0, off |-> 0, brClosed |-> FALSE,
          lastErr |-> FALSE,
          tasks |-> [t \in TaskIds |-> IdleTask]]

\* The offset that whence gives whatever the file is.
StartOffsetVerbatim(rp, whence, isNewFile) ==
    IF metaOff[rp] >= 0 THEN metaOff[rp]
    ELSE IF whence = "newest" THEN flen[rp] ELSE 0

\* NewActiveReader: the offset the reader starts at.  A submeta that exists holds
\* the offset; otherwise whence decides, forced to oldest for a file that is new
\* to an agent that has statistics or has finished its first pass.
StartOffset(rp, whence, isNewFile) ==
    IF metaOff[rp] >= 0 THEN metaOff[rp]
    ELSE IF isNewFile THEN 0
    ELSE IF whence = "newest" THEN flen[rp] ELSE 0

NewActiveReader(originPath, realPath, whence, nft) ==
    [NoObj EXCEPT !.live = TRUE, !.path = realPath, !.origin = originPath,
                  !.inactive = 1, !.emptyLineCnt = 0, !.status = "Init",
                  !.off = StartOffset(realPath, whence, cfg.hasStats \/ nft)]

FreeSlots == {i \in Slots : ~objs[i].live}
FreeTasks(i) == {t \in TaskIds : objs[i].tasks[t].pc = "idle"}
NoTasks(o) == \A t \in TaskIds : o.tasks[t].pc = "idle"

\* An ActiveReader that nothing refers to any more and that has no goroutine left
\* is garbage: its slot is free again.
Collect(os, fr, keep) ==
    [i \in Slots |->
        IF os[i].live /\ i \notin Range(fr) /\ i \notin keep /\ NoTasks(os[i])
        THEN NoObj ELSE os[i]]

Stopish(s) == s = "Stopped" \/ s = "Stopping"


SetTask(o, t, pc, val) == [o EXCEPT !.tasks[t] = [pc |-> pc, val |-> val]]

\* Objects that a goroutine still holds a pointer to.
Refs(d, sy, cl) ==
    (IF d.obj # 0 THEN {d.obj} ELSE {}) \cup sy.left \cup cl.left

\* objs' after object i became o, garbage collected.
Put(i, o) == objs' = Collect([objs EXCEPT ![i] = o], fileReaders, Refs(disc, syncer, closer))

\* emptyLineCnt++ ; only "> EmptyLineLimit" is ever read, so the count saturates.
Bump(c) == IF c > EmptyLineLimit THEN c ELSE c + 1

\* BufReader.ReadLine on the reader of object o: the next line of the file, or an
\* empty line with io.EOF at the end of the file; os.ErrClosed once closed; with
\* read faults also an empty line without EOF and a read error.
ReadLine(o) ==
    IF o.brClosed THEN {[line |-> 0, err |-> "closed", off |-> o.off]}
    ELSE (IF o.off < flen[o.path]
          THEN {[line |-> o.off + 1, err |-> "nil", off |-> o.off + 1]}
          ELSE {[line |-> 0, err |-> "EOF", off |-> o.off]})
         \cup (IF "read" \in cfg.faults
               THEN {[line |-> 0, err |-> "nil", off |-> o.off],
                     [line |-> 0, err |-> "error", off |-> o.off]}
               ELSE {})

\* --------------------------------------------------------------- environment
\* A writer appends one line to file f.
AppendLine(f) ==
    /\ f \in present
    /\ flen[f] < MaxLines
    /\ flen' = [flen EXCEPT ![f] = @ + 1]
    /\ age' = [age EXCEPT ![f] = 0]
    /\ UNCHANGED <<cfg, stats, present, status, chanVars, fileReaders, cacheMap, notFirstTime,
                   currentFile, objs, disc, syncer, closer, metaVars, run, hist>>

\* File f is deleted.
RemoveFile(f) ==
    /\ f \in present
    /\ present' = present \ {f}
    /\ UNCHANGED <<cfg, stats, flen, age, status, chanVars, fileReaders, cacheMap, notFirstTime,
                   currentFile, objs, disc, syncer, closer, metaVars, run, hist>>

\* A writer creates file f with its first lines.
CreateFile(f) ==
    /\ f \notin present /\ flen[f] = 0
    /\ present' = present \cup {f}
    /\ flen' = [flen EXCEPT ![f] = cfg.lines]
    /\ age' = [age EXCEPT ![f] = 0]
    /\ UNCHANGED <<cfg, stats, status, chanVars, fileReaders, cacheMap, notFirstTime,
                   currentFile, objs, disc, syncer, closer, metaVars, run, hist>>

\* ----------------------------------------------------- ActiveReader.Run
taskFrame == <<cfg, stats, envVars, status, chanVars, fileReaders, cacheMap, notFirstTime,
               currentFile, disc, syncer, closer, metaVars, run, hist>>

\* Run: CompareAndSwap(StatusInit, StatusRunning), or exit.
RunCas(i, t) ==
    LET o == objs[i] IN
    /\ o.live /\ o.tasks[t].pc = "start"
    /\ IF o.status = "Init"
       THEN Put(i, SetTask([o EXCEPT !.status = "Running"], t, "top", 0))
       ELSE Put(i, SetTask(o, t, "idle", 0))
    /\ UNCHANGED taskFrame

\* Head of the loop: exit when stopping or stopped, else fetch or deliver.
RunTop(i, t) ==
    LET o == objs[i] IN
    /\ o.live /\ o.tasks[t].pc = "top"
    /\ IF Stopish(o.status)
       THEN Put(i, SetTask([o EXCEPT !.status = "Stopped"], t, "idle", 0))
       ELSE IF o.readcache = 0
            THEN Put(i, SetTask(o, t, "read", 0))
            ELSE Put(i, SetTask(o, t, "dcheck", 0))
    /\ UNCHANGED taskFrame

\* Fetch phase: readcache, err = br.ReadLine() and what follows from the result.
RunReadAs(o, t, r) ==
    LET o1 == [o EXCEPT !.readcache = r.line, !.off = r.off]
        o2 == [o1 EXCEPT !.emptyLineCnt = Bump(o.emptyLineCnt)]
    IN  IF r.err = "error"
        THEN SetTask([o1 EXCEPT !.lastErr = TRUE], t, "sendErr", 0)
        ELSE IF r.line = 0
             THEN IF r.err = "EOF" \/ o2.emptyLineCnt > EmptyLineLimit
                  THEN SetTask([o2 EXCEPT !.inactive = 1], t, "stop", 0)
                  ELSE SetTask(o2, t, "top", 0)
             ELSE SetTask(o1, t, "dcheck", 0)

RunRead(i, t) ==
    LET o == objs[i] IN
    /\ o.live /\ o.tasks[t].pc = "read"
    /\ \E r \in ReadLine(o) : Put(i, RunReadAs(o, t, r))
    /\ UNCHANGED taskFrame

\* sendError: nothing is sent when the reader is stopping or stopped; otherwise
\* the goroutine blocks on errChan.
RunSendErr(i, t) ==
    LET o == objs[i] IN
    /\ o.live /\ o.tasks[t].pc = "sendErr"
    /\ IF Stopish(o.status)
       THEN Put(i, SetTask(o, t, "stop", 0))
       ELSE Put(i, SetTask(o, t, "errSend", 0))
    /\ UNCHANGED taskFrame

\* The send on a closed errChan panics; sendError recovers.
RunErrPanic(i, t) ==
    LET o == objs[i] IN
    /\ o.live /\ o.tasks[t].pc = "errSend"
    /\ errChan = "closed"
    /\ Put(i, SetTask(o, t, "stop", 0))
    /\ UNCHANGED taskFrame

\* ar.Stop() called by Run itself: Running -> Stopping, then the wait loop.
StopAs(o, t) ==
    IF o.status = "Stopped" THEN SetTask(o, t, "idle", 0)
    ELSE IF o.status = "Running" THEN SetTask([o EXCEPT !.status = "Stopping"], t, "stopWait", 0)
    ELSE IF o.status = "Stopping" THEN SetTask(o, t, "stopWait", 0)
    ELSE SetTask(o, t, "idle", 0)

RunStop(i, t) ==
    LET o == objs[i] IN
    /\ o.live /\ o.tasks[t].pc = "stop"
    /\ Put(i, StopAs(o, t))
    /\ UNCHANGED taskFrame

\* The wait loop of Stop ends when the status is Stopped or after 3 rounds; Run
\* then returns.
RunStopWait(i, t) ==
    LET o == objs[i] IN
    /\ o.live /\ o.tasks[t].pc = "stopWait"
    /\ Put(i, SetTask(o, t, "idle", 0))
    /\ UNCHANGED taskFrame

\* Deliver phase, head of the inner loop.
DeliverCheckAs(o, t) ==
    IF o.readcache = 0 THEN SetTask(o, t, "top", 0)
    ELSE LET o1 == [o EXCEPT !.inactive = 0, !.emptyLineCnt = 0] IN
         IF Stopish(o.status)
         THEN SetTask([o1 EXCEPT !.status = "Stopped"], t, "idle", 0)
         ELSE SetTask(o1, t, "select", o.readcache)

RunDeliverCheck(i, t) ==
    LET o == objs[i] IN
    /\ o.live /\ o.tasks[t].pc = "dcheck"
    /\ Put(i, DeliverCheckAs(o, t))
    /\ UNCHANGED taskFrame

\* select: the timer case.
RunSelectTimer(i, t) ==
    LET o == objs[i] IN
    /\ o.live /\ o.tasks[t].pc = "select"
    /\ Put(i, SetTask(o, t, "dcheck", 0))
    /\ UNCHANGED taskFrame

\* After a successful send: readcache = "".
ClearAs(o, t) == SetTask([o EXCEPT !.readcache = 0], t, "dcheck", 0)

RunClear(i, t) ==
    LET o == objs[i] IN
    /\ o.live /\ o.tasks[t].pc = "clear"
    /\ Put(i, ClearAs(o, t))
    /\ UNCHANGED taskFrame


\* ---------------------------------------------------------------- discovery
discFrame == <<cfg, stats, envVars, chanVars, currentFile, syncer, closer, blob, run>>

Registered == {p \in RealPaths : fileReaders[p] # 0}

\* os.Stat(path): the modification time, or the error of a path that does not
\* exist.
Stat(p) ==
    IF p \in present THEN [err |-> "nil", mtime |-> Now - age[p]]
                     ELSE [err |-> "notexist", mtime |-> 0]

\* expired without the test of the inactive flag.
expiredByAgeOnly(expire, st, now, inactive) ==
    IF expire = 0 THEN FALSE
    ELSE IF st.err # "nil" THEN st.err = "notexist"
    ELSE st.mtime + expire < now

\* ActiveReader.expired
expired(expire, st, now, inactive) ==
    IF expire = 0 THEN FALSE
    ELSE IF st.err # "nil" THEN st.err = "notexist"
    ELSE st.mtime + expire < now /\ inactive > 0

\* IsFileModified(rp, statInterval, now): written within the last statInterval.
IsFileModified(rp) == rp \in present /\ age[rp] <= 1

\* filepath.Glob: the existing paths the pattern matches, in lexical order.
Glob(pattern) == SelectSeq(PathOrder, LAMBDA o : o \in pattern /\ o \in present)

\* A swap that does not compare.
SwapAlways(s, old) == TRUE

\* atomic.CompareAndSwapInt32(&status, old, new) succeeds when the status is old.
CompareAndSwap(s, old) == s = old

\* Reader.Start: an error when the Reader is stopping or has stopped; otherwise
\* Init -> Running and the discovery goroutine begins its first pass; nothing
\* when the swap fails.
EngineStart ==
    /\ IF Stopish(status)
       THEN /\ hist' = [hist EXCEPT !.startRet = "error"]
            /\ UNCHANGED <<status, disc>>
       ELSE IF CompareAndSwap(status, "Init")
       THEN /\ status' = "Running"
            /\ disc' = [disc EXCEPT !.pc = "tick"]
            /\ hist' = [hist EXCEPT !.startRet = "nil"]
       ELSE /\ hist' = [hist EXCEPT !.startRet = "nil"]
            /\ UNCHANGED <<status, disc>>
    /\ UNCHANGED <<cfg, stats, envVars, chanVars, fileReaders, cacheMap, notFirstTime,
                   currentFile, objs, syncer, closer, metaVars, run>>

\* checkExpiredFiles takes armapmux and ranges over fileReaders.
ExpireBegin ==
    /\ disc.pc = "tick"
    /\ disc' = [disc EXCEPT !.pc = "expire", !.exp = Registered]
    /\ hist' = [hist EXCEPT
                  !.eligible = {p \in Registered :
                                  /\ cfg.expire > 0 /\ p \in present
                                  /\ (Now - age[p]) + cfg.expire < Now
                                  /\ objs[fileReaders[p]].inactive = 1},
                  !.found = {}]
    /\ UNCHANGED <<cfg, stats, envVars, status, chanVars, fileReaders, cacheMap, notFirstTime,
                   currentFile, objs, syncer, closer, metaVars, run>>

\* ar.Close() as far as the wait loop of Stop: br.Close(), then Running -> Stopping.
CloseAs(o) ==
    [o EXCEPT !.brClosed = TRUE,
              !.status = IF o.status = "Running" THEN "Stopping" ELSE o.status]

\* One iteration of the range: ar.expired(r.expire), and ar.Close() if so.
ExpireExamine(p) ==
    LET i == fileReaders[p]
        o == objs[i]
    IN  /\ disc.pc = "expire" /\ p \in disc.exp
        /\ IF expired(cfg.expire, Stat(p), Now, o.inactive)
           THEN /\ objs' = [objs EXCEPT ![i] = CloseAs(o)]
                /\ disc' = [disc EXCEPT !.pc = "expWait", !.cur = p, !.exp = @ \ {p}]
                /\ hist' = [hist EXCEPT !.found = @ \cup {p}]
           ELSE /\ objs' = objs
                /\ disc' = [disc EXCEPT !.exp = @ \ {p}]
                /\ hist' = hist
        /\ UNCHANGED <<cfg, stats, envVars, status, chanVars, fileReaders, cacheMap, notFirstTime,
                       currentFile, syncer, closer, metaVars, run>>

\* The rest of the iteration, once Stop has returned (the reader is Stopped, or
\* the 3 s are over): the reader leaves fileReaders, cacheMap and the submetas.
RemoveNothing(m, p) == m

RemoveAs(m, p) == [m EXCEPT ![p] = 0]

ExpireRemove ==
    LET p == disc.cur IN
    /\ disc.pc = "expWait"
    /\ fileReaders' = RemoveAs(fileReaders, p)
    /\ cacheMap' = RemoveAs(cacheMap, p)
    /\ subMetas' = subMetas \ {p}
    /\ metaOff' = [metaOff EXCEPT ![p] = -1]
    /\ disc' = [disc EXCEPT !.pc = "expire", !.cur = ""]
    /\ objs' = Collect(objs, fileReaders', Refs(disc', syncer, closer))
    /\ UNCHANGED <<cfg, stats, envVars, status, chanVars, notFirstTime, currentFile, syncer,
                   closer, blob, run, hist>>

\* checkExpiredFiles returns and releases armapmux.
ExpireEnd ==
    /\ disc.pc = "expire" /\ disc.exp = {}
    /\ disc' = [disc EXCEPT !.pc = "stat0"]
    /\ hist' = [hist EXCEPT !.eligible = {}]
    /\ UNCHANGED <<cfg, stats, envVars, status, chanVars, fileReaders, cacheMap, notFirstTime,
                   currentFile, objs, syncer, closer, metaVars, run>>

\* statLogPath: the maxOpenFiles test, then the two globs.
CapReached(n, maxOpenFiles) == n >= maxOpenFiles

StatBegin ==
    /\ disc.pc = "stat0"
    /\ IF CapReached(Cardinality(Registered), cfg.maxOpenFiles)
       THEN disc' = [disc EXCEPT !.pc = "wait"]
       ELSE disc' = [disc EXCEPT !.pc = "match", !.matches = Glob(cfg.incl),
                                 !.unmatch = {o \in cfg.excl : o \in present}]
    /\ UNCHANGED <<cfg, stats, envVars, status, chanVars, fileReaders, cacheMap, notFirstTime,
                   currentFile, objs, syncer, closer, metaVars, run, hist>>

Min(S) == CHOOSE x \in S : \A y \in S : x <= y

Pop(d) == [d EXCEPT !.pc = "match", !.obj = 0, !.matches = Tail(@)]

\* The match is skipped when the ignore pattern matched the same path.
Excluded(mc, unmatch) == mc \in unmatch

\* A new file is not followed when it has no cached line and is older than expire.
TooOld(cacheline, expire, mtime, now) ==
    cacheline = 0 /\ expire > 0 /\ mtime + expire < now

\* A new ActiveReader that is not given the cached line.
SeededBlank(mc, rp, cacheline) == NewActiveReader(mc, rp, cfg.whence, notFirstTime)

\* The ActiveReader of a new file: NewActiveReader, then ar.readcache = cacheline.
Seeded(mc, rp, cacheline) ==
    [NewActiveReader(mc, rp, cfg.whence, notFirstTime) EXCEPT
        !.readcache = cacheline]

\* One iteration of "for _, mc := range matches" up to the point where the
\* reader of a known file is restarted or the reader of a new file is built; with
\* open faults NewActiveReader may fail, and the error goes to Reader.sendError.
MatchStep ==
    LET mc == Head(disc.matches)
        rp == GetRealPath(mc)
    IN  /\ disc.pc = "match" /\ disc.matches # <<>>
        /\ IF Excluded(mc, disc.unmatch) \/ rp \notin present
           THEN /\ disc' = Pop(disc)
                /\ objs' = objs
           ELSE IF fileReaders[rp] # 0
           THEN /\ IF IsFileModified(rp)
                   THEN disc' = [disc EXCEPT !.pc = "startChk", !.obj = fileReaders[rp]]
                   ELSE disc' = Pop(disc)
                /\ objs' = objs
           ELSE IF TooOld(cacheMap[rp], cfg.expire, Now - age[rp], Now)
           THEN /\ disc' = Pop(disc)
                /\ objs' = objs
           ELSE \/ /\ FreeSlots # {}
                   /\ LET i == Min(FreeSlots) IN
                      /\ objs' = [objs EXCEPT ![i] = Seeded(mc, rp, cacheMap[rp])]
                      /\ disc' = [disc EXCEPT !.pc = "register", !.obj = i]
                \/ /\ "open" \in cfg.faults
                   /\ objs' = objs
                   /\ disc' = [disc EXCEPT !.pc = "discErr"]
        /\ UNCHANGED <<cfg, stats, envVars, status, chanVars, fileReaders, cacheMap, notFirstTime,
                       currentFile, syncer, closer, metaVars, run, hist>>

\* Reader.sendError: the send on a closed errChan panics, and sendError recovers.
DiscErrPanic ==
    /\ disc.pc = "discErr"
    /\ errChan = "closed"
    /\ disc' = Pop(disc)
    /\ UNCHANGED <<cfg, stats, envVars, status, chanVars, fileReaders, cacheMap, notFirstTime,
                   currentFile, objs, syncer, closer, metaVars, run, hist>>

\* Under armapmux: the test of the Reader's status that guards AddSubMeta and
\* fileReaders[rp] = ar.
Register ==
    /\ disc.pc = "register"
    /\ disc' = [disc EXCEPT !.pc = IF ~Stopish(status) THEN "registerPut" ELSE "startNew"]
    /\ UNCHANGED <<cfg, stats, envVars, status, chanVars, fileReaders, cacheMap, notFirstTime,
                   currentFile, objs, syncer, closer, metaVars, run, hist>>

\* Still under armapmux, after the test of the status: AddSubMeta and
\* fileReaders[rp] = ar.
RegisterPut ==
    LET i == disc.obj
        rp == objs[i].path
    IN  /\ disc.pc = "registerPut"
        /\ subMetas' = subMetas \cup {rp}
        /\ fileReaders' = [fileReaders EXCEPT ![rp] = i]
        /\ disc' = [disc EXCEPT !.pc = "startNew"]
        /\ UNCHANGED <<cfg, stats, envVars, status, chanVars, cacheMap, notFirstTime, currentFile,
                       objs, syncer, closer, blob, metaOff, run, hist>>

\* ar.Start() for the new reader, unless the Reader is stopping or has stopped.
StartNew ==
    /\ disc.pc = "startNew"
    /\ IF ~Stopish(status)
       THEN /\ disc' = [disc EXCEPT !.pc = "startChk"]
            /\ objs' = objs
       ELSE /\ disc' = Pop(disc)
            /\ objs' = Collect(objs, fileReaders, Refs(disc', syncer, closer))
    /\ UNCHANGED <<cfg, stats, envVars, status, chanVars, fileReaders, cacheMap, notFirstTime,
                   currentFile, syncer, closer, metaVars, run, hist>>

\* ActiveReader.Start: the two loads of the status.
StartCheck ==
    LET o == objs[disc.obj] IN
    /\ disc.pc = "startChk"
    /\ IF o.status = "Running"
       THEN /\ disc' = Pop(disc)
            /\ objs' = Collect(objs, fileReaders, Refs(disc', syncer, closer))
       ELSE /\ disc' = [disc EXCEPT !.pc = IF o.status = "Stopping" THEN "startWait"
                                                                   ELSE "startStore"]
            /\ objs' = objs
    /\ UNCHANGED <<cfg, stats, envVars, status, chanVars, fileReaders, cacheMap, notFirstTime,
                   currentFile, syncer, closer, metaVars, run, hist>>

\* ActiveReader.Start: the wait for Stopped ends (reached, or 3 s are over), then
\* CompareAndSwap(StatusStopping, StatusStopped).
StartWait ==
    LET i == disc.obj
        o == objs[i]
    IN  /\ disc.pc = "startWait"
        /\ objs' = [objs EXCEPT ![i].status = IF o.status = "Stopping" THEN "Stopped"
                                                                     ELSE o.status]
        /\ disc' = [disc EXCEPT !.pc = "startStore"]
        /\ UNCHANGED <<cfg, stats, envVars, status, chanVars, fileReaders, cacheMap, notFirstTime,
                       currentFile, syncer, closer, metaVars, run, hist>>

\* ActiveReader.Start: Store(StatusInit) and go ar.Run().
LaunchAs(o, t) == SetTask([o EXCEPT !.status = "Init"], t, "start", 0)

StartStore ==
    LET i == disc.obj IN
    /\ disc.pc = "startStore"
    /\ FreeTasks(i) # {}
    /\ objs' = [objs EXCEPT ![i] = LaunchAs(objs[i], Min(FreeTasks(i)))]
    /\ disc' = Pop(disc)
    /\ UNCHANGED <<cfg, stats, envVars, status, chanVars, fileReaders, cacheMap, notFirstTime,
                   currentFile, syncer, closer, metaVars, run, hist>>

\* statLogPath returns after the last match: notFirstTime = true.
StatEnd ==
    /\ disc.pc = "match" /\ disc.matches = <<>>
    /\ notFirstTime' = TRUE
    /\ disc' = [disc EXCEPT !.pc = "wait", !.unmatch = {}]
    /\ UNCHANGED <<cfg, stats, envVars, status, chanVars, fileReaders, cacheMap, currentFile,
                   objs, syncer, closer, metaVars, run, hist>>

\* select: the ticker fires, one statInterval after the previous tick.
TickerFire ==
    /\ disc.pc = "wait"
    /\ age' = [f \in RealPaths |-> IF f \in present /\ age[f] < MaxAge THEN age[f] + 1
                                                                       ELSE age[f]]
    /\ disc' = [disc EXCEPT !.pc = "tick"]
    /\ UNCHANGED <<cfg, stats, present, flen, status, chanVars, fileReaders, cacheMap,
                   notFirstTime, currentFile, objs, syncer, closer, metaVars, run, hist>>

\* select: stopChan is closed; the goroutine stores StatusStopped and returns.
DiscStop ==
    /\ disc.pc = "wait"
    /\ stopChan = "closed"
    /\ status' = "Stopped"
    /\ disc' = [disc EXCEPT !.pc = "done"]
    /\ UNCHANGED <<cfg, stats, envVars, chanVars, fileReaders, cacheMap, notFirstTime,
                   currentFile, objs, syncer, closer, metaVars, run, hist>>

\* ------------------------------------------------------------------ consumer
\* Reader.ReadLine receives the result that the goroutine t of reader i is
\* sending: currentFile = msg.logpath, and the line is returned.
ReceiveAs(o) == o.origin

Deliver(i, t) ==
    LET o == objs[i] IN
    /\ o.live /\ o.tasks[t].pc = "select"
    /\ msgChan = "open"
    /\ currentFile' = ReceiveAs(o)
    /\ hist' = [hist EXCEPT !.got[o.path] = @ \cup {o.tasks[t].val},
                            !.synced = FALSE, !.syncing = FALSE,
                            !.ret = <<o.tasks[t].val, "nil">>]
    /\ objs' = [objs EXCEPT ![i] = SetTask(o, t, "clear", 0)]
    /\ UNCHANGED <<cfg, stats, envVars, status, chanVars, fileReaders, cacheMap, notFirstTime,
                   disc, syncer, closer, metaVars, run>>

\* Reader.ReadLine receives the error that the goroutine t of reader i is sending.
DeliverErr(i, t) ==
    LET o == objs[i] IN
    /\ o.live /\ o.tasks[t].pc = "errSend"
    /\ errChan = "open"
    /\ Put(i, SetTask(o, t, "stop", 0))
    /\ hist' = [hist EXCEPT !.ret = <<0, "error">>]
    /\ UNCHANGED <<cfg, stats, envVars, status, chanVars, fileReaders, cacheMap, notFirstTime,
                   currentFile, disc, syncer, closer, metaVars, run>>

\* Reader.ReadLine receives the error that the discovery goroutine is sending
\* in Reader.sendError.
DeliverDiscErr ==
    /\ disc.pc = "discErr"
    /\ errChan = "open"
    /\ disc' = Pop(disc)
    /\ hist' = [hist EXCEPT !.ret = <<0, "error">>]
    /\ UNCHANGED <<cfg, stats, envVars, status, chanVars, fileReaders, cacheMap, notFirstTime,
                   currentFile, objs, syncer, closer, metaVars, run>>

\* Reader.ReadLine while nothing is sent and no channel is closed: the timer
\* case; "" and nil are returned.
ReadTimeout ==
    /\ msgChan = "open" /\ errChan = "open"
    /\ hist' = [hist EXCEPT !.ret = <<0, "nil">>]
    /\ UNCHANGED <<cfg, stats, envVars, status, chanVars, fileReaders, cacheMap, notFirstTime,
                   currentFile, objs, disc, syncer, closer, metaVars, run>>

\* What a receive from a closed msgChan yields: the zero Result.
ZeroResult == [result |-> 0, logpath |-> ""]

\* Reader.ReadLine once msgChan is closed: the receive yields the zero Result at
\* once: currentFile = msg.logpath, and msg.result and nil are returned.
ReceiveClosed ==
    /\ msgChan = "closed"
    /\ currentFile' = ZeroResult.logpath
    /\ hist' = [hist EXCEPT !.ret = <<ZeroResult.result, "nil">>]
    /\ UNCHANGED <<cfg, stats, envVars, status, chanVars, fileReaders, cacheMap, notFirstTime,
                   objs, disc, syncer, closer, metaVars, run>>

\* Reader.ReadLine once errChan is closed, when select takes that case: the
\* receive yields a nil error; "" and nil are returned.
ReceiveClosedErr ==
    /\ errChan = "closed"
    /\ hist' = [hist EXCEPT !.ret = <<0, "nil">>]
    /\ UNCHANGED <<cfg, stats, envVars, status, chanVars, fileReaders, cacheMap, notFirstTime,
                   currentFile, objs, disc, syncer, closer, metaVars, run>>


\* ------------------------------------------------------------------ SyncMeta
\* armapmux is held by checkExpiredFiles for the whole sweep and by statLogPath
\* while it registers a reader; every other critical section is a single step.
MuxFree == disc.pc \notin {"expire", "expWait", "registerPut"}

RegisteredSlots == {fileReaders[p] : p \in Registered}

\* jsoniter.Marshal(cacheMap): the object's members, one per entry of the map.
Marshal(m) == {<<p, m[p]>> : p \in {q \in RealPaths : m[q] # 0}}

\* jsoniter.Unmarshal(buf, &cacheMap)
Unmarshal(b) == [p \in RealPaths |->
                    IF \E e \in b : e[1] = p THEN (CHOOSE e \in b : e[1] = p)[2] ELSE 0]

\* Reader.SyncMeta called by the host: getActiveReaders.
SyncBegin ==
    /\ status = "Running"
    /\ syncer.pc = "idle"
    /\ MuxFree
    /\ syncer' = [pc |-> "snap", left |-> RegisteredSlots, by |-> "host"]
    /\ hist' = [hist EXCEPT !.syncing = TRUE]
    /\ UNCHANGED <<cfg, stats, envVars, status, chanVars, fileReaders, cacheMap, notFirstTime,
                   currentFile, objs, disc, closer, metaVars, run>>

\* A store of whatever SyncMeta returned, empty or not.
UpsertAlways(m, p, readcache) == [m EXCEPT ![p] = readcache]

\* What SyncMeta stores in cacheMap for a reader whose SyncMeta returned readcache.
Upsert(m, p, readcache) == IF readcache = 0 THEN m ELSE [m EXCEPT ![p] = readcache]

\* One reader of the loop: ar.SyncMeta() flushes the offset of its BufReader and
\* returns readcache, which is stored in cacheMap when it is not empty.
SyncSnap(i) ==
    LET o == objs[i] IN
    /\ syncer.pc = "snap" /\ i \in syncer.left
    /\ o.readcache # 0 => MuxFree
    /\ metaOff' = [metaOff EXCEPT ![o.path] = o.off]
    /\ cacheMap' = Upsert(cacheMap, o.path, o.readcache)
    /\ syncer' = [syncer EXCEPT !.left = @ \ {i}]
    /\ objs' = Collect(objs, fileReaders, Refs(disc, syncer', closer))
    /\ UNCHANGED <<cfg, stats, envVars, status, chanVars, fileReaders, notFirstTime, currentFile,
                   disc, closer, blob, subMetas, run, hist>>

\* Marshal and meta.WriteBuf; with write faults either may fail, and SyncMeta
\* returns with the blob as it was.
SyncWrite ==
    /\ syncer.pc = "snap" /\ syncer.left = {}
    /\ MuxFree
    /\ \E okay \in (IF "write" \in cfg.faults THEN {TRUE, FALSE} ELSE {TRUE}) :
         /\ blob' = IF okay THEN Marshal(cacheMap) ELSE blob
         /\ hist' = [hist EXCEPT !.synced = IF okay THEN hist.syncing ELSE @,
                                 !.syncing = FALSE]
    /\ syncer' = [pc |-> "idle", left |-> {}, by |-> ""]
    /\ closer' = IF syncer.by = "close" THEN [closer EXCEPT !.pc = "spawn"] ELSE closer
    /\ UNCHANGED <<cfg, stats, envVars, status, chanVars, fileReaders, cacheMap, notFirstTime,
                   currentFile, objs, disc, metaOff, subMetas, run>>

\* A whole SyncMeta call of the host that no other goroutine interleaves with:
\* every registered reader is snapshotted, then the blob is written.
SyncMetaCall ==
    /\ status = "Running"
    /\ syncer.pc = "idle"
    /\ MuxFree
    /\ metaOff' = [p \in RealPaths |->
                     IF fileReaders[p] # 0 THEN objs[fileReaders[p]].off ELSE metaOff[p]]
    /\ cacheMap' = [p \in RealPaths |->
                      IF fileReaders[p] # 0
                      THEN Upsert(cacheMap, p, objs[fileReaders[p]].readcache)[p]
                      ELSE cacheMap[p]]
    /\ blob' = Marshal(cacheMap')
    /\ hist' = [hist EXCEPT !.synced = TRUE, !.syncing = FALSE]
    /\ UNCHANGED <<cfg, stats, envVars, status, chanVars, fileReaders, notFirstTime, currentFile,
                   objs, disc, syncer, closer, subMetas, run>>

\* -------------------------------------------------------------------- Status
\* The orders in which a range over a map may visit the members of S.
Orders(S) == {s \in [1..Cardinality(S) -> S] : \A x, y \in DOMAIN s : s[x] = s[y] => x = y}

\* Reader.Status: for every registered reader whose stats hold a LastError, one
\* entry "<originpath>: error" is appended to the Reader's own stats.LastError,
\* and the Reader's stats are returned.
StatusCall ==
    /\ MuxFree
    /\ \E s \in Orders({i \in RegisteredSlots : objs[i].lastErr}) :
         /\ Len(stats) + Len(s) <= MaxStatsLen
         /\ stats' = stats \o [x \in DOMAIN s |-> objs[s[x]].origin]
    /\ hist' = [hist EXCEPT !.statusRet = stats']
    /\ UNCHANGED <<cfg, envVars, status, chanVars, fileReaders, cacheMap, notFirstTime,
                   currentFile, objs, disc, syncer, closer, metaVars, run>>

\* --------------------------------------------------------------------- Close
\* close(c): closing a channel that is closed panics.
CloseChan(c) == IF c = "open" THEN "closed" ELSE "panic"

\* Reader.Close: Running -> Stopping and close(stopChan); ignored when the swap
\* fails.
CloseBegin ==
    /\ IF CompareAndSwap(status, "Running")
       THEN /\ status' = "Stopping"
            /\ stopChan' = CloseChan(stopChan)
            /\ closer' = [closer EXCEPT !.pc = "sync"]
       ELSE UNCHANGED <<status, stopChan, closer>>
    /\ UNCHANGED <<cfg, stats, envVars, msgChan, errChan, fileReaders, cacheMap, notFirstTime,
                   currentFile, objs, disc, syncer, metaVars, run, hist>>

\* Reader.Close: r.SyncMeta().
CloseSync ==
    /\ closer.pc = "sync"
    /\ syncer.pc = "idle"
    /\ MuxFree
    /\ syncer' = [pc |-> "snap", left |-> RegisteredSlots, by |-> "close"]
    /\ closer' = [closer EXCEPT !.pc = "syncing"]
    /\ hist' = [hist EXCEPT !.syncing = TRUE]
    /\ UNCHANGED <<cfg, stats, envVars, status, chanVars, fileReaders, cacheMap, notFirstTime,
                   currentFile, objs, disc, metaVars, run>>

\* Reader.Close: getActiveReaders, and one goroutine per reader for mar.Close().
CloseSpawn ==
    /\ closer.pc = "spawn"
    /\ MuxFree
    /\ closer' = [closer EXCEPT !.pc = "closing", !.left = RegisteredSlots]
    /\ UNCHANGED <<cfg, stats, envVars, status, chanVars, fileReaders, cacheMap, notFirstTime,
                   currentFile, objs, disc, syncer, metaVars, run, hist>>

\* mar.Close() as far as the wait loop of Stop.
CloseFollower(i) ==
    /\ closer.pc = "closing" /\ i \in closer.left \ closer.begun
    /\ objs' = [objs EXCEPT ![i] = CloseAs(objs[i])]
    /\ closer' = [closer EXCEPT !.begun = @ \cup {i}]
    /\ UNCHANGED <<cfg, stats, envVars, status, chanVars, fileReaders, cacheMap, notFirstTime,
                   currentFile, disc, syncer, metaVars, run, hist>>

\* mar.Close() returns: the reader is Stopped, or the 3 s are over.
CloseFollowerDone(i) ==
    /\ closer.pc = "closing" /\ i \in closer.begun
    /\ closer' = [closer EXCEPT !.begun = @ \ {i}, !.left = @ \ {i}]
    /\ objs' = Collect(objs, fileReaders, Refs(disc, syncer, closer'))
    /\ UNCHANGED <<cfg, stats, envVars, status, chanVars, fileReaders, cacheMap, notFirstTime,
                   currentFile, disc, syncer, metaVars, run, hist>>

\* Reader.Close after wg.Wait(): close(msgChan), close(errChan).
CloseChans ==
    /\ closer.pc = "closing" /\ closer.left = {}
    /\ msgChan' = CloseChan(msgChan)
    /\ errChan' = CloseChan(errChan)
    /\ closer' = [closer EXCEPT !.pc = "done"]
    /\ UNCHANGED <<cfg, stats, envVars, status, stopChan, fileReaders, cacheMap, notFirstTime,
                   currentFile, objs, disc, syncer, metaVars, run, hist>>

\* The send of Run on a closed msgChan panics; nothing in Run recovers, and the
\* panic ends the process.
RunSendPanic(i, t) ==
    LET o == objs[i] IN
    /\ o.live /\ o.tasks[t].pc = "select"
    /\ msgChan = "closed"
    /\ Put(i, SetTask(o, t, "idle", 0))
    /\ hist' = [hist EXCEPT !.panic = TRUE]
    /\ UNCHANGED <<cfg, stats, envVars, status, chanVars, fileReaders, cacheMap, notFirstTime,
                   currentFile, disc, syncer, closer, metaVars, run>>


\* ------------------------------------------------------------------- restart
NoDisc == [pc |-> "idle", exp |-> {}, cur |-> "", matches |-> <<>>, unmatch |-> {}, obj |-> 0]
NoSyncer == [pc |-> "idle", left |-> {}, by |-> ""]
NoCloser == [pc |-> "idle", left |-> {}, begun |-> {}]

\* NewReader: the Reader as built from the configuration and the meta: cacheMap is
\* what the buffer blob holds, nothing is followed yet.
NewReader ==
    /\ status' = "Init"
    /\ stopChan' = "open" /\ msgChan' = "open" /\ errChan' = "open"
    /\ fileReaders' = [p \in RealPaths |-> 0]
    /\ cacheMap' = Unmarshal(blob)
    /\ notFirstTime' = FALSE
    /\ currentFile' = ""

\* The process ends (Close has returned, or it is killed) and is started again
\* with the same configuration and meta directory.
Restart ==
    /\ run < MaxRestarts
    /\ status # "Init"
    /\ run' = run + 1
    /\ NewReader
    /\ objs' = [i \in Slots |-> NoObj]
    /\ disc' = NoDisc /\ syncer' = NoSyncer /\ closer' = NoCloser
    /\ subMetas' = {}
    /\ hist' = [hist EXCEPT
                  !.before = [p \in RealPaths |-> @[p] \cup hist.got[p]],
                  !.got = [p \in RealPaths |-> {}],
                  !.cleanStop = hist.synced,
                  !.synced = FALSE, !.syncing = FALSE,
                  !.seedAt = Unmarshal(blob),
                  !.eligible = {}, !.found = {},
                  !.startRet = "", !.ret = <<0, "none">>, !.statusRet = <<>>]
    /\ stats' = <<>>
    /\ UNCHANGED <<cfg, envVars, blob, metaOff>>

\* ----------------------------------------------------------- initial states
NoHist == [got |-> [p \in RealPaths |-> {}],
           before |-> [p \in RealPaths |-> {}],
           synced |-> FALSE, syncing |-> FALSE, cleanStop |-> FALSE,
           seedAt |-> [p \in RealPaths |-> 0],
           eligible |-> {}, found |-> {}, panic |-> FALSE,
           startRet |-> "", ret |-> <<0, "none">>, statusRet |-> <<>>]

\* The state after NewReader for a configuration, a directory content and a
\* buffer blob drawn from W; no submeta exists.
InitWith(W) ==
    /\ cfg \in W
    /\ present = cfg.files
    /\ flen = [f \in RealPaths |-> IF f \in cfg.files THEN cfg.lines ELSE 0]
    /\ age = [f \in RealPaths |-> IF f \in cfg.files /\ cfg.old THEN MaxAge ELSE 0]
    /\ status = "Init"
    /\ stopChan = "open" /\ msgChan = "open" /\ errChan = "open"
    /\ fileReaders = [p \in RealPaths |-> 0]
    /\ cacheMap = Unmarshal(cfg.blob)
    /\ notFirstTime = FALSE
    /\ currentFile = ""
    /\ objs = [i \in Slots |-> NoObj]
    /\ disc = NoDisc /\ syncer = NoSyncer /\ closer = NoCloser
    /\ blob = cfg.blob
    /\ metaOff = [p \in RealPaths |-> -1]
    /\ subMetas = {}
    /\ run = 0
    /\ stats = <<>>
    /\ hist = NoHist

\* ------------------------------------------------------------ next-state
Writes == \E f \in RealPaths : AppendLine(f)

Removes == \E f \in RealPaths : RemoveFile(f)

\* The steps of Run that a reader takes on a file without lines.
Polling ==
    \E i \in Slots, t \in TaskIds :
        \/ RunCas(i, t) \/ RunTop(i, t) \/ RunRead(i, t) \/ RunStop(i, t)
        \/ RunStopWait(i, t)

\* The deliver phase of Run, and the consumer's ReadLine.
Delivering ==
    \E i \in Slots, t \in TaskIds :
        \/ RunDeliverCheck(i, t) \/ RunSelectTimer(i, t) \/ RunClear(i, t)
        \/ Deliver(i, t)

ReadErrors == \E i \in Slots, t \in TaskIds : RunSendErr(i, t) \/ DeliverErr(i, t)

Discovery ==
    \/ EngineStart \/ ExpireBegin \/ (\E p \in RealPaths : ExpireExamine(p)) \/ ExpireEnd
    \/ StatBegin \/ MatchStep \/ Register \/ RegisterPut \/ StartNew \/ StartCheck
    \/ StartStore \/ StatEnd \/ TickerFire

Syncing == SyncBegin \/ (\E i \in Slots : SyncSnap(i)) \/ SyncWrite

Closing ==
    \/ CloseBegin \/ CloseSync \/ CloseSpawn
    \/ (\E i \in Slots : CloseFollower(i) \/ CloseFollowerDone(i))
    \/ CloseChans \/ DiscStop

World(files, lines, old, incl, excl, maxOpenFiles, expire, faults) ==
    [maxOpenFiles |-> maxOpenFiles, expire |-> expire, whence |-> "oldest",
     incl |-> incl, excl |-> excl, files |-> files, lines |-> lines, old |-> old,
     faults |-> faults, hasStats |-> FALSE, blob |-> {}]

\* The world w with a meta directory whose buffer blob is b.
WithBlob(w, b) == [w EXCEPT !.blob = b]

\* One file "a" that the pattern matches under its own name and through the
\* link "l"; no expiry.  Writers, readers, discovery and the consumer.
RaceWorlds == {World({"a", "l"}, 0, FALSE, {"a", "l"}, {}, 2, 0, {})}
Init == InitWith(RaceWorlds)
Next == Writes \/ Polling \/ Delivering \/ Discovery \/ StartWait
Spec == Init /\ [][Next]_vars

\* Three files and maxOpenFiles = 2; or the file "a", which the ignore pattern
\* matches, and the link "l" to it.  Nothing is written: discovery and the
\* readers' polling.
CapWorlds == {World({"a", "b", "c"}, 0, FALSE, {"a", "b", "c"}, {}, 2, 0, {}),
              World({"a", "l"}, 0, FALSE, {"a", "l"}, {"a"}, 2, 0, {})}
InitCap == InitWith(CapWorlds)
NextCap == Polling \/ Discovery
SpecCap == InitCap /\ [][NextCap]_vars

\* One file that holds MaxLines lines and is not written again, with expiry off
\* or on; the file may be deleted; SyncMeta calls fill cacheMap.
ExpireWorlds == {World({"a"}, MaxLines, FALSE, {"a"}, {}, 2, e, {}) : e \in {0, 1}}
InitExpire == InitWith(ExpireWorlds)
NextExpire == Removes \/ Polling \/ Delivering \/ Discovery \/ StartWait \/ ExpireRemove \/ SyncMetaCall
SpecExpire == InitExpire /\ [][NextExpire]_vars

\* One file with one line and expiry on, a consumer that does not call ReadLine,
\* and SyncMeta calls that the sweeps and the readers interleave with.
ExpireSyncWorlds == {World({"a"}, 1, FALSE, {"a"}, {}, 2, 1, {})}
InitExpireSync == InitWith(ExpireSyncWorlds)
NextExpireSync ==
    \/ Polling
    \/ (\E i \in Slots, t \in TaskIds : RunDeliverCheck(i, t) \/ RunSelectTimer(i, t))
    \/ Discovery \/ ExpireRemove \/ Syncing
SpecExpireSync == InitExpireSync /\ [][NextExpireSync]_vars

\* One file; SyncMeta, whose Marshal or WriteBuf may fail, and a restart of the
\* process at any moment.
RestartWorlds == {World({"a"}, MaxLines, TRUE, {"a"}, {}, 2, 0, {"write"})}
InitRestart == InitWith(RestartWorlds)
NextRestart == Polling \/ Delivering \/ Discovery \/ Syncing \/ Restart
SpecRestart == InitRestart /\ [][NextRestart]_vars

\* One file with one line, on an empty meta directory or on one whose blob holds
\* a line of the file; NewActiveReader may fail.  Start and Close are called at
\* any moment and any number of times, and the consumer's ReadLine goes on
\* after Close.
\* No goroutine has ended the process by a panic.
Alive == ~hist.panic

CloseWorlds == {WithBlob(World({"a"}, 1, FALSE, {"a"}, {}, 2, 0, {"open"}), b) :
                   b \in {{}, {<<"a", 1>>}}}
InitClose == InitWith(CloseWorlds)
Consumer == DeliverDiscErr \/ ReadTimeout \/ ReceiveClosed \/ ReceiveClosedErr
CloseSyncing == (\E i \in Slots : SyncSnap(i)) \/ SyncWrite
Panics == (\E i \in Slots, t \in TaskIds : RunSendPanic(i, t)) \/ DiscErrPanic
NextClose ==
    \/ Alive /\ Polling
    \/ Alive /\ Delivering
    \/ Alive /\ (Discovery \/ StartWait)
    \/ Alive /\ (Closing \/ CloseSyncing)
    \/ Alive /\ Consumer
    \/ Alive /\ Panics
SpecClose == InitClose /\ [][NextClose]_vars

\* One Start call, and a consumer that calls ReadLine only while it likes to.  Every
\* goroutine that can take a step is scheduled in the end: the reading tasks, the
\* discovery goroutine and a Close call in progress; the select of the discovery
\* goroutine takes the stopChan case in the end when it is ready at every tick.
TaskStep(i, t) ==
    \/ RunCas(i, t) \/ RunTop(i, t) \/ RunRead(i, t) \/ RunStop(i, t) \/ RunStopWait(i, t)
    \/ RunDeliverCheck(i, t) \/ RunSelectTimer(i, t) \/ RunClear(i, t) \/ RunSendPanic(i, t)
DiscStep ==
    \/ ExpireBegin \/ (\E p \in RealPaths : ExpireExamine(p)) \/ ExpireEnd
    \/ StatBegin \/ MatchStep \/ Register \/ RegisterPut \/ StartNew \/ StartCheck
    \/ StartWait \/ StartStore \/ StatEnd \/ TickerFire \/ DiscErrPanic
CloseStep ==
    \/ CloseSync \/ CloseSyncing \/ CloseSpawn \/ CloseChans
    \/ (\E i \in Slots : CloseFollower(i) \/ CloseFollowerDone(i))
NextCloseFair ==
    \/ status = "Init" /\ EngineStart
    \/ Alive /\ (Polling \/ Delivering)
    \/ Alive /\ DiscStep
    \/ Alive /\ (Closing \/ CloseSyncing)
    \/ Alive /\ DeliverDiscErr
    \/ Alive /\ (\E i \in Slots, t \in TaskIds : RunSendPanic(i, t))
Scheduling ==
    /\ \A i \in Slots, t \in TaskIds : WF_vars(Alive /\ TaskStep(i, t))
    /\ WF_vars(Alive /\ DiscStep) /\ SF_vars(Alive /\ DiscStop)
    /\ WF_vars(Alive /\ CloseStep)
SpecCloseFair == InitClose /\ [][NextCloseFair]_vars /\ Scheduling

\* One file with one line whose reads may fail or come back empty, with expiry
\* on; the consumer reads lines and errors, and the host asks for the status.
ReadWorlds == {World({"a"}, 1, FALSE, {"a"}, {}, 2, 1, {"read"})}
InitRead == InitWith(ReadWorlds)
NextRead ==
    \/ Polling \/ Delivering \/ ReadErrors \/ Discovery \/ StartWait \/ ExpireRemove
    \/ StatusCall
SpecRead == InitRead /\ [][NextRead]_vars

\* The same with a consumer that calls ReadLine only while it likes to: every
\* reading goroutine and the discovery goroutine are scheduled in the end.
ReadScheduling ==
    /\ \A i \in Slots, t \in TaskIds :
          WF_vars(TaskStep(i, t) \/ RunSendErr(i, t) \/ RunErrPanic(i, t))
    /\ WF_vars(DiscStep \/ ExpireRemove)
SpecReadFair == InitRead /\ [][NextRead]_vars /\ ReadScheduling

\* The world w read with whence and with or without a statistics file in the
\* meta directory.
WithWhence(w, whence, hasStats) == [w EXCEPT !.whence = whence, !.hasStats = hasStats]

\* File "a" exists with one line when the Reader is built, file "b" is created
\* later; whence is newest or oldest, with and without statistics on disk.
WhenceWorlds == {WithWhence(World({"a"}, 1, FALSE, {"a", "b"}, {}, 2, 0, {}), wh, st) :
                    wh \in {"newest", "oldest"}, st \in BOOLEAN}
InitWhence == InitWith(WhenceWorlds)
NextWhence ==
    \/ (\E f \in cfg.incl : CreateFile(f))
    \/ Polling \/ Delivering \/ Discovery \/ StartWait
SpecWhence == InitWhence /\ [][NextWhence]_vars

\* One file that a writer appends to, with maxOpenFiles = 1: the follower of the
\* file fills the cap.  The host calls Start, every goroutine that can take a
\* step is scheduled in the end, and the consumer's ReadLine receives in the end
\* a line that is offered again and again.
AtCapWorlds == {World({"a"}, 0, FALSE, {"a"}, {}, 1, 0, {})}
InitAtCap == InitWith(AtCapWorlds)
NextAtCap == Writes \/ Polling \/ Delivering \/ Discovery
AtCapScheduling ==
    /\ WF_vars(EngineStart) /\ WF_vars(DiscStep)
    /\ \A i \in Slots, t \in TaskIds : WF_vars(TaskStep(i, t)) /\ SF_vars(Deliver(i, t))
SpecAtCap == InitAtCap /\ [][NextAtCap]_vars /\ AtCapScheduling

\* ===================================================================== claims
\* The goroutine t of reader i sends its line to the consumer in this step.
Sends(i, t) == objs[i].tasks[t].pc = "select" /\ objs'[i].tasks[t].pc = "clear"

\* A Run loop that has passed the Init -> Running swap and is in its loop.
InLoop(task) == task.pc \in {"top", "read", "dcheck", "select", "clear", "sendErr", "errSend"}

\* The expire sweep examines the reader of path p in this step.
Examined(p) == disc.pc = "expire" /\ p \in disc.exp /\ p \notin disc'.exp

\* C1: the number of registered followers never exceeds max_open_files.
C1_FollowersWithinCap == Cardinality(Registered) <= cfg.maxOpenFiles

\* C2: the lines of one file are delivered in file order: no line is delivered
\* after a later line of the same file.
C2_FileOrder ==
    [][\A i \in Slots, t \in TaskIds :
          Sends(i, t) => \A l \in hist.got[objs[i].path] : l <= objs[i].tasks[t].val]_vars

\* C3 (its safety half): no line of a file is delivered twice within one run.
C3_NoLineTwice ==
    [][\A i \in Slots, t \in TaskIds :
          Sends(i, t) => objs[i].tasks[t].val \notin hist.got[objs[i].path]]_vars

\* C4: when a SyncMeta that began after the last delivery completed before the
\* stop, no line delivered before the stop is delivered again after the restart.
C4_NoRedeliveryAfterSync ==
    hist.cleanStop => \A p \in RealPaths : hist.before[p] \cap hist.got[p] = {}

\* C5: when no SyncMeta completed between the last delivery and the stop, at most
\* one line per follower that was delivered before the stop is delivered again.
C5_AtMostOneRedelivered ==
    (run > 0 /\ ~hist.cleanStop) =>
        \A p \in RealPaths : Cardinality(hist.before[p] \cap hist.got[p]) <= 1

C7_EligibleAllRetired ==
    (disc.pc = "expire" /\ disc.exp = {}) => hist.eligible \cap Registered = {}

\* C7 (amended): every follower that the sweep finds expired is closed, and by
\* the end of the sweep it is in none of fileReaders, cacheMap and the submetas.
C7_FoundRetired ==
    \A p \in hist.found :
        IF disc.pc = "expWait" /\ disc.cur = p
        THEN objs[fileReaders[p]].brClosed
        ELSE fileReaders[p] = 0 /\ cacheMap[p] = 0 /\ p \notin subMetas

C7_Witness ==
    /\ disc.pc = "expire" /\ disc.exp = {} /\ "a" \in hist.found
    /\ "a" \in present
    /\ \E e \in blob : e[1] = "a"

C9_ExcludedNeverFollowed == \A p \in Registered : ~(p \in cfg.incl /\ p \in cfg.excl)

\* C10: at most one Run loop per follower is active.
C10_OneReadingTask ==
    \A i \in Slots : Cardinality({t \in TaskIds : InLoop(objs[i].tasks[t])}) <= 1

\* The consumer's ReadLine receives an error from errChan in this step.
RecvErr ==
    /\ errChan = "open"
    /\ \/ \E i \in Slots, t \in TaskIds :
             objs[i].tasks[t].pc = "errSend" /\ objs'[i].tasks[t].pc # "errSend"
       \/ disc.pc = "discErr" /\ disc'.pc # "discErr"

\* One reader of the loop of SyncMeta is snapshotted in this step.
Snapped(i) == syncer.pc = "snap" /\ syncer'.pc = "snap" /\ i \in syncer.left \ syncer'.left

\* The moves of a status that the lifecycle allows.
StatusSteps == {<<"Init", "Running">>, <<"Running", "Stopping">>, <<"Stopping", "Stopped">>}

\* C11: discovery neither constructs a follower nor puts one into fileReaders in
\* a step taken while the Reader's status is Stopping or Stopped.
C11_NoFollowerWhileStopping ==
    [][(\/ \E i \in Slots : ~objs[i].live /\ objs'[i].live
        \/ \E p \in RealPaths : fileReaders[p] = 0 /\ fileReaders'[p] # 0)
       => ~Stopish(status)]_vars

C13_CloseTerminates == (status = "Stopping") ~> [](status = "Stopped" /\ disc.pc = "done")

\* C14: no send of a reading task on msgChan panics, that is, no reading task
\* sends on msgChan after Close has closed it.
C14_NoSendPanic == ~hist.panic

\* C15: a ReadLine call returns a line and nil for one result received, with
\* currentFile set to its origin path; or "" and an error for one error received,
\* or "" and nil, and in these two cases currentFile is left as it was.
C15_ReadLineResult ==
    [][IF \E i \in Slots, t \in TaskIds : Sends(i, t)
       THEN \A i \in Slots, t \in TaskIds :
               Sends(i, t) => /\ hist'.ret = <<objs[i].tasks[t].val, "nil">>
                              /\ currentFile' = objs[i].origin
       ELSE /\ currentFile' = currentFile
            /\ IF RecvErr THEN hist'.ret = <<0, "error">>
               ELSE hist'.ret # hist.ret => hist'.ret = <<0, "nil">>]_vars

\* C16: Source() is the origin path of the last line delivered, "" before the
\* first: only a delivery changes currentFile, and it sets it to the origin path
\* of the line delivered.
C16_SourceIsLastDelivered ==
    [][\/ \E i \in Slots, t \in TaskIds : Sends(i, t) /\ currentFile' = objs[i].origin
       \/ currentFile' = currentFile]_vars

\* C17: an entry of cacheMap is deleted or emptied only by the expire sweep when
\* it retires the follower of that path.
C17_CacheEntryKept ==
    [][\A p \in RealPaths :
          (cacheMap[p] # 0 /\ cacheMap'[p] = 0) =>
              (disc.pc = "expWait" /\ disc.cur = p /\ fileReaders'[p] = 0)]_vars

C17_Witness ==
    /\ "a" \in hist.found /\ cacheMap["a"] = 0 /\ fileReaders["a"] = 0
    /\ \E e \in blob : e[1] = "a" /\ e[2] \in hist.got["a"]

\* C18: every non-empty line that a follower's SyncMeta returns is a line the
\* consumer has not received.
C18_SyncReturnsUndelivered ==
    [][\A i \in Slots :
          (Snapped(i) /\ objs[i].readcache # 0) =>
              objs[i].readcache \notin hist.got[objs[i].path]]_vars

\* C19: when the Close of a follower returns (in the expire sweep or in the
\* Reader's Close), the follower is Stopped and its BufReader is closed.
C19_ClosedIsStopped ==
    [][/\ (disc.pc = "expWait" /\ disc'.pc = "expire") =>
              /\ objs[fileReaders[disc.cur]].status = "Stopped"
              /\ objs[fileReaders[disc.cur]].brClosed
       /\ \A i \in Slots :
              (i \in closer.left /\ i \notin closer'.left) =>
                  objs[i].status = "Stopped" /\ objs[i].brClosed]_vars

\* C20: when the reading task that stopped itself returns from Stop, and with it
\* from Run, the follower is Stopped.
C20_SelfStopReachesStopped ==
    [][\A i \in Slots, t \in TaskIds :
          (objs[i].tasks[t].pc = "stopWait" /\ objs'[i].tasks[t].pc = "idle") =>
              objs[i].status = "Stopped"]_vars

\* The goroutine t of reader i got an empty line without EOF and sleeps before
\* it reads again.
Retries(i, t) == objs[i].tasks[t].pc = "read" /\ objs'[i].tasks[t].pc = "top"

\* C21: a follower sleeps and retries on the first and the second empty read
\* without EOF only: the third one in a row stops it.
C21_StopOnThirdMiss ==
    [][\A i \in Slots, t \in TaskIds : Retries(i, t) => objs'[i].emptyLineCnt < 3]_vars

\* C22: the expire sweep never examines a follower whose inactive flag is 1
\* while it holds an undelivered line in readcache.
C22_NoInactiveWithLine ==
    [][\A p \in RealPaths :
          Examined(p) =>
              ~(objs[fileReaders[p]].inactive = 1 /\ objs[fileReaders[p]].readcache # 0)]_vars

\* C23: a goroutine whose read failed publishes the error: from the status test
\* of sendError it goes on to the send on errChan, and it leaves the send only
\* when the consumer has received the error.
C23_ErrorPublished ==
    [][\A i \in Slots, t \in TaskIds :
          /\ objs[i].tasks[t].pc = "sendErr" => objs'[i].tasks[t].pc \in {"sendErr", "errSend"}
          /\ (objs[i].tasks[t].pc = "errSend" /\ objs'[i].tasks[t].pc # "errSend")
                 => hist'.ret = <<0, "error">>]_vars

\* C24: once a follower is Stopping or Stopped, each of its reading goroutines
\* that is still alive exits, whether or not the consumer calls ReadLine.
C24_TaskExits ==
    \A i \in Slots, t \in TaskIds :
        (Stopish(objs[i].status) /\ objs[i].tasks[t].pc # "idle")
            ~> (objs[i].tasks[t].pc = "idle")

\* SyncMeta marshals cacheMap and writes the blob, or fails to, in this step.
Written == syncer.pc = "snap" /\ syncer'.pc = "idle" /\ run' = run

\* C25: the step of SyncMeta that snapshots a follower stores its readcache under
\* its real path when it is not empty, and changes no other entry of cacheMap;
\* the step that marshals and writes changes no entry, also when it fails.
C25_SyncStores ==
    [][/\ \A i \in Slots :
            Snapped(i) =>
                \A p \in RealPaths :
                    cacheMap'[p] = IF p = objs[i].path /\ objs[i].readcache # 0
                                   THEN objs[i].readcache ELSE cacheMap[p]
       /\ Written => cacheMap' = cacheMap]_vars

\* A SyncMeta call has stored line 1 of the follower of "a" and has failed to
\* write the blob.
C25_Witness ==
    /\ syncer.pc = "idle" /\ run = 0
    /\ fileReaders["a"] # 0 /\ objs[fileReaders["a"]].readcache = 1
    /\ cacheMap["a"] = 1 /\ blob = {}

\* statLogPath builds the ActiveReader of slot i in this step.
Constructed(i) == ~objs[i].live /\ objs'[i].live

\* C26: a follower built for a path without submeta starts where whence says
\* only when there are no statistics on disk and notFirstTime is false, and at
\* offset 0 otherwise; and notFirstTime is true from the end of the first
\* statLogPath on.
C26_WhenceOnlyAtFirst ==
    [][/\ \A i \in Slots :
            (Constructed(i) /\ metaOff[objs'[i].path] < 0) =>
                objs'[i].off = IF ~cfg.hasStats /\ ~notFirstTime /\ cfg.whence = "newest"
                               THEN flen[objs'[i].path] ELSE 0
       /\ (disc.pc = "match" /\ disc'.pc = "wait") => notFirstTime']_vars

\* With whence newest and no statistics, nothing of "a" is delivered and the
\* line of "b", which appeared after the first pass had begun, is.
C26_Witness ==
    /\ cfg.whence = "newest" /\ ~cfg.hasStats
    /\ fileReaders["a"] # 0 /\ objs[fileReaders["a"]].off = 1 /\ hist.got["a"] = {}
    /\ hist.got["b"] = {1}

\* C27: a follower that the expire sweep of a tick has removed is not built
\* again by the statLogPath of the same tick.
C27_NotRecreated ==
    [][\A i \in Slots : Constructed(i) => objs'[i].path \notin hist.found]_vars

\* C28: armapmux is not held while a follower is being stopped: a SyncMeta call
\* that is about to lock it for Marshal is never kept waiting by a sweep that
\* waits for a follower to stop.
C28_NoWaitUnderMutex ==
    ~(disc.pc = "expWait" /\ syncer.pc = "snap" /\ syncer.left = {} /\ ~MuxFree)

\* C29: a call of Status does not change the Reader's stats: when it returns a
\* value that differs from the one the previous call returned, the difference
\* was not made by the call itself.
C29_StatusChangesNothing ==
    [][hist'.statusRet # hist.statusRet => stats' = stats]_vars

\* The ActiveReader of slot i becomes garbage in this step.
Dropped(i) == objs[i].live /\ ~objs'[i].live

\* C30: no ActiveReader is given up with its BufReader open: whatever discovery
\* has opened is closed before nothing refers to it any more.
C30_ClosedBeforeDropped ==
    [][\A i \in Slots : Dropped(i) => objs[i].brClosed]_vars

\* ActiveReader.Start launches the goroutine t of reader i in this step.
Launched(i, t) == objs[i].tasks[t].pc = "idle" /\ objs'[i].tasks[t].pc = "start"

\* C31: no reading goroutine is launched while the Reader's status is Stopping
\* or Stopped.
C31_NoLaunchWhileStopping ==
    [][\A i \in Slots, t \in TaskIds : Launched(i, t) => ~Stopish(status)]_vars

\* C32: every line that is written to the file of a registered follower is
\* delivered in the end, also when the follower had stopped itself at EOF and
\* the number of followers is at maxOpenFiles.
C32_NewLinesDelivered ==
    \A l \in 1..MaxLines :
        (fileReaders["a"] # 0 /\ flen["a"] >= l) ~> (l \in hist.got["a"])

\* C33: a reading goroutine that is launched when the follower has no other one
\* starts with an empty-read count of zero, whether the follower is new or
\* reactivated.
C33_CountStartsAtZero ==
    [][\A i \in Slots, t \in TaskIds :
          (Launched(i, t) /\ NoTasks(objs[i])) => objs'[i].emptyLineCnt = 0]_vars

====
